---- MODULE Spec2Model ----
(***************************************************************************)
(* A model of src/PageCollector.ts: the per-page windowed collector        *)
(* (PageCollector<T>) and its navigation-aware subclass (NetworkCollector).*)
(* One collector instance is modelled; `kind` says which class it is.      *)
(***************************************************************************)
EXTENDS Integers, Sequences, FiniteSets, TLC

\* ------------------------------------------------------------------ bounds

\* Number.MAX_SAFE_INTEGER, scaled down so that the wrap of the id counter happens.
MAX_SAFE_INTEGER == 2

\* #initializePage runs, all pages together (the code has no limit).
MaxInits == 2

\* Windows a NetworkCollector page may accumulate (the code has no limit).
MaxWindows == 5

\* Items the storage may hold, all pages together, under SpecWindows.
MaxStored == 4

\* Items the storage may hold, all pages together, under Spec and SpecIssues.
MaxStoredPages == 1

\* ------------------------------------------------------------- the domain

Pages == {"P", "Q"}

\* Items: the objects the page events carry (HTTPRequest, AggregatedIssue, ...).
Items == {"a", "b", "c", "d"}

\* Primary keys of raw issues.
Keys == {"k1", "k2"}

\* JavaScript's undefined, where an item or an issue is expected.
undefined == "undefined"

\* HTTPRequest.frame(), as "main" (the page's main frame) or "sub".
frame(request) == IF request = "c" THEN "sub" ELSE "main"

\* Page.mainFrame()
mainFrame(page) == "main"

\* HTTPRequest.isNavigationRequest()
isNavigationRequest(request) == request \in {"a", "c", "d"}

\* #maxNavigationSaved = 3
maxNavigationSaved == 3

VARIABLES
    kind,                \* "generic" (PageCollector) or "network" (this instanceof NetworkCollector)
    storage,             \* WeakMap<Page, Array<Array<T>>>: a function on the pages it has
    stableId,            \* item[stableIdSymbol]: a function on the items that carry the symbol
    inits,               \* per page, the #initializePage runs: [pc, i], i the idGenerator's counter
    attached,            \* per page, the runs whose listeners page.on() holds, in attach order
    listeners,           \* #listeners: WeakMap<Page, ListenerMap>, as the run that built the map
    sessions,            \* per page, the CDP sessions with an 'Audits.issueAdded' handler
    seenIssueKeys,       \* #seenIssueKeys: WeakMap<Page, Set<string>>
    issuesAggregators,   \* #issuesAggregators: the pages it has
    mockIssuesManagers,  \* #mockIssuesManagers: per page, how often each key was dispatched to it
    uncaught,            \* the errors handlers have thrown
    last                 \* the handler that ran last: [op, page, arg, did]

vars == <<kind, storage, stableId, inits, attached, listeners, sessions, seenIssueKeys,
          issuesAggregators, mockIssuesManagers, uncaught, last>>

\* ---------------------------------------------------------------- helpers

\* WeakMap.delete
MapDelete(m, key) == [k \in DOMAIN m \ {key} |-> m[k]]

\* WeakMap.set
MapSet(m, key, value) == (key :> value) @@ m

\* Array.prototype.includes
Includes(array, value) == \E n \in 1..Len(array) : array[n] = value

\* The windows of one page, index 0 first, as one sequence.
RECURSIVE Flatten(_)
Flatten(navigations) ==
    IF navigations = <<>> THEN <<>> ELSE Head(navigations) \o Flatten(Tail(navigations))

RECURSIVE StoredIn(_, _)
StoredIn(sto, pages) ==
    IF pages = {} THEN 0
    ELSE LET p == CHOOSE p \in pages : TRUE
         IN  Len(Flatten(sto[p])) + StoredIn(sto, pages \ {p})

\* The items the storage holds, all pages together.
Stored == StoredIn(storage, DOMAIN storage)

\* The item event does not take the storage beyond `bound` items.
Fits(page, value, bound) ==
    IF page \notin DOMAIN storage THEN TRUE
    ELSE IF Includes(storage[page][1], value) THEN TRUE
    ELSE Stored < bound

RECURSIVE InitsOf(_)
InitsOf(pages) ==
    IF pages = {} THEN 0
    ELSE LET p == CHOOSE p \in pages : TRUE IN Len(inits[p]) + InitsOf(pages \ {p})

Min(x, y) == IF x < y THEN x ELSE y

\* ------------------------------------------------------- createIdGenerator

\* One call of the closure createIdGenerator returns, on counter i: the value
\* returned and the counter afterwards.
idGenerator(i) ==
    LET i1 == IF i = MAX_SAFE_INTEGER THEN 0 ELSE i
    IN  [value |-> i1, i |-> i1 + 1]

\* `!withId[stableIdSymbol]`: the symbol is undefined, or 0.
NoStableId(sid, value) == value \notin DOMAIN sid \/ sid[value] = 0

\* ------------------------------------------------------------- collector

\* collector without `if (!currentNavigation.includes(withId))`: every
\* delivery is pushed.
collectorPushing(h, page, n, value) ==
    LET new == NoStableId(h.stableId, value)
        id == idGenerator(h.inits[page][n].i)
        sid == IF new THEN MapSet(h.stableId, value, id.value) ELSE h.stableId
        ini == IF new THEN [h.inits EXCEPT ![page][n].i = id.i] ELSE h.inits
        sto == IF page \in DOMAIN h.storage
               THEN [h.storage EXCEPT ![page][1] = Append(@, value)]
               ELSE h.storage
    IN  [stableId |-> sid, inits |-> ini, storage |-> sto]

\* The closure `collector` of run n of page, on the heap h = [stableId, inits, storage].
collector(h, page, n, value) ==
    LET new == NoStableId(h.stableId, value)
        id == idGenerator(h.inits[page][n].i)
        sid == IF new THEN MapSet(h.stableId, value, id.value) ELSE h.stableId
        ini == IF new THEN [h.inits EXCEPT ![page][n].i = id.i] ELSE h.inits
        sto == IF page \in DOMAIN h.storage /\ ~Includes(h.storage[page][1], value)
               THEN [h.storage EXCEPT ![page][1] = Append(@, value)]
               ELSE h.storage
    IN  [stableId |-> sid, inits |-> ini, storage |-> sto]

\* page.emit(name, value): every attached item listener, in attach order; the
\* listeners #listenersInitializer builds call collect(value).
RECURSIVE emitItem(_, _, _, _)
emitItem(h, page, handlers, value) ==
    IF handlers = <<>> THEN h
    ELSE emitItem(collector(h, page, Head(handlers), value), page, Tail(handlers), value)

\* --------------------------------------------------- splitAfterNavigation

\* PageCollector.splitAfterNavigation with push for unshift: the new window is
\* put at the end of the list.
PageCollector_pushAfterNavigation(sto, page) ==
    IF page \notin DOMAIN sto THEN [storage |-> sto, threw |-> FALSE]
    ELSE LET pushed == sto[page] \o <<<<>>>>
             spliced == SubSeq(pushed, 1, Min(Len(pushed), maxNavigationSaved))
         IN  [storage |-> [sto EXCEPT ![page] = spliced], threw |-> FALSE]

\* PageCollector.splitAfterNavigation: [storage, threw]
PageCollector_splitAfterNavigation(sto, page) ==
    IF page \notin DOMAIN sto THEN [storage |-> sto, threw |-> FALSE]
    ELSE LET unshifted == <<<<>>>> \o sto[page]
             spliced == SubSeq(unshifted, 1, Min(Len(unshifted), maxNavigationSaved))
         IN  [storage |-> [sto EXCEPT ![page] = spliced], threw |-> FALSE]

\* requests.findLastIndex(request => request.frame() === page.mainFrame()
\*   ? request.isNavigationRequest() : false), 1-based; 0 for JavaScript's -1.
findLastIndex(requests, page) ==
    LET hits == {n \in 1..Len(requests) :
                    IF frame(requests[n]) = mainFrame(page)
                    THEN isNavigationRequest(requests[n]) ELSE FALSE}
    IN  IF hits = {} THEN 0 ELSE CHOOSE n \in hits : \A m \in hits : m <= n

\* NetworkCollector.splitAfterNavigation with findIndex for findLastIndex: the
\* window is split at the first main-frame navigation request.
NetworkCollector_splitAtFirstNavigation(sto, page) ==
    IF page \notin DOMAIN sto THEN [storage |-> sto, threw |-> TRUE]
    ELSE LET navigations == sto[page]
             requests == navigations[1]
             hits == {n \in 1..Len(requests) :
                         /\ frame(requests[n]) = mainFrame(page)
                         /\ isNavigationRequest(requests[n])}
             firstRequestIdx == IF hits = {} THEN 0
                                ELSE CHOOSE n \in hits : \A m \in hits : n <= m
             result == IF firstRequestIdx # 0
                       THEN <<SubSeq(requests, firstRequestIdx, Len(requests)),
                              SubSeq(requests, 1, firstRequestIdx - 1)>>
                            \o Tail(navigations)
                       ELSE <<<<>>>> \o navigations
         IN  [storage |-> [sto EXCEPT ![page] = result], threw |-> FALSE]

\* NetworkCollector.splitAfterNavigation: [storage, threw]. Without the page,
\* navigations is [] and requests undefined: requests.findLastIndex throws.
NetworkCollector_splitAfterNavigation(sto, page) ==
    IF page \notin DOMAIN sto THEN [storage |-> sto, threw |-> TRUE]
    ELSE LET navigations == sto[page]
             requests == navigations[1]
             lastRequestIdx == findLastIndex(requests, page)
             fromCurrentNavigation == SubSeq(requests, lastRequestIdx, Len(requests))
             remaining == SubSeq(requests, 1, lastRequestIdx - 1)
             result == IF lastRequestIdx # 0
                       THEN <<fromCurrentNavigation, remaining>> \o Tail(navigations)
                       ELSE <<<<>>>> \o navigations
         IN  [storage |-> [sto EXCEPT ![page] = result], threw |-> FALSE]

\* this.splitAfterNavigation(page), by the class of the collector
splitAfterNavigation(k, sto, page) ==
    IF k = "network" THEN NetworkCollector_splitAfterNavigation(sto, page)
    ELSE PageCollector_splitAfterNavigation(sto, page)

\* What #listenersInitializer(collector) returns, by event name: the caller's
\* item listener, which calls collect(value), and a listener of the caller's
\* own for 'framenavigated', which leaves the windows alone.
listenersInitializer == [request |-> "collect", framenavigated |-> "caller"]

\* The listener map without `listeners['framenavigated'] = ...`.
listenersAsInitialized == listenersInitializer

\* The listener map #initializePage attaches: 'framenavigated' is set to the
\* listener that splits, whatever the caller had there.
listenerMap == [listenersInitializer EXCEPT !.framenavigated = "splitAfterNavigation"]

\* One 'framenavigated' listener of the attached map: only a main-frame
\* navigation splits.
framenavigatedListener(k, sto, page, f) ==
    IF listenerMap.framenavigated # "splitAfterNavigation"
    THEN [storage |-> sto, threw |-> FALSE]
    ELSE IF f # mainFrame(page) THEN [storage |-> sto, threw |-> FALSE]
    ELSE splitAfterNavigation(k, sto, page)

\* page.emit('framenavigated', f): the attached listeners in order; a listener
\* that throws ends the emit.
RECURSIVE emitFramenavigated(_, _, _, _, _)
emitFramenavigated(k, sto, page, handlers, f) ==
    IF handlers = <<>> THEN [storage |-> sto, threw |-> FALSE]
    ELSE LET r == framenavigatedListener(k, sto, page, f)
         IN  IF r.threw THEN r
             ELSE emitFramenavigated(k, r.storage, page, Tail(handlers), f)

\* ---------------------------------------------------------------- queries

\* The loop of getData: for (index = ...; index >= 0; index--), index 0-based.
RECURSIVE getDataFrom(_, _)
getDataFrom(navigations, index) ==
    IF index < 0 THEN <<>>
    ELSE (IF index + 1 <= Len(navigations) THEN navigations[index + 1] ELSE <<>>)
         \o getDataFrom(navigations, index - 1)

\* getData(page, includePreservedData) on the storage sto
getDataOf(sto, page, includePreservedData) ==
    IF page \notin DOMAIN sto THEN <<>>
    ELSE IF ~includePreservedData THEN sto[page][1]
    ELSE getDataFrom(sto[page], maxNavigationSaved)

getData(page, includePreservedData) == getDataOf(storage, page, includePreservedData)

\* getIdForResource(resource)
getIdForResource(resource) ==
    IF resource \in DOMAIN stableId THEN stableId[resource] ELSE -1

\* Array.prototype.find, the filter given as the set of the items it accepts
ArrayFind(array, accepts) ==
    LET hits == {n \in 1..Len(array) : array[n] \in accepts}
    IN  IF hits = {} THEN undefined
        ELSE array[CHOOSE n \in hits : \A m \in hits : n <= m]

\* find looking at navigations[0] only.
findInCurrent(navigations, accepts) ==
    IF navigations = <<>> THEN undefined ELSE ArrayFind(Head(navigations), accepts)

\* The loop of find: for (const navigation of navigations)
RECURSIVE findIn(_, _)
findIn(navigations, accepts) ==
    IF navigations = <<>> THEN undefined
    ELSE LET item == ArrayFind(Head(navigations), accepts)
         IN  IF item # undefined THEN item ELSE findIn(Tail(navigations), accepts)

\* find(page, filter) on the storage sto
findOf(sto, page, accepts) ==
    IF page \notin DOMAIN sto THEN undefined ELSE findIn(sto[page], accepts)

find(page, accepts) == findOf(storage, page, accepts)

\* The errors getById throws
NoRequestsFound == "Error: No requests found for selected page"
RequestNotFound == "Error: Request not found for selected page"

\* getById(page, stableId) on the storage sto: the item, or the error thrown
getByIdOf(sto, page, id) ==
    IF page \notin DOMAIN sto THEN NoRequestsFound
    ELSE LET item == findOf(sto, page,
                            {x \in DOMAIN stableId : stableId[x] = id})
         IN  IF item # undefined THEN item ELSE RequestNotFound

getById(page, id) == getByIdOf(storage, page, id)

\* ------------------------------------------------------------------ state

\* The shape of the fields of the collector, of the symbol on the items and of
\* what the pages and sessions hold.
TypeOK ==
    /\ kind \in {"generic", "network"}
    /\ DOMAIN storage \subseteq Pages
    /\ \A page \in DOMAIN storage :
          /\ Len(storage[page]) >= 1
          /\ \A n \in 1..Len(storage[page]) :
                \A m \in 1..Len(storage[page][n]) : storage[page][n][m] \in Items
    /\ DOMAIN stableId \subseteq Items
    /\ \A item \in DOMAIN stableId : stableId[item] \in 0..(MAX_SAFE_INTEGER - 1)
    /\ \A page \in Pages :
          /\ \A n \in 1..Len(inits[page]) :
                /\ inits[page][n].pc \in {"createCDPSession", "Audits.enable", "return", "done"}
                /\ inits[page][n].i \in 1..MAX_SAFE_INTEGER
          /\ \A n \in 1..Len(attached[page]) : attached[page][n] \in 1..Len(inits[page])
          /\ sessions[page] \in 0..Len(inits[page])
    /\ DOMAIN listeners \subseteq Pages
    /\ \A page \in DOMAIN listeners : listeners[page] \in 1..Len(inits[page])
    /\ DOMAIN seenIssueKeys \subseteq Pages
    /\ \A page \in DOMAIN seenIssueKeys : seenIssueKeys[page] \subseteq Keys
    /\ issuesAggregators \subseteq Pages
    /\ DOMAIN mockIssuesManagers = issuesAggregators
    /\ uncaught \subseteq {"TypeError"}

Init ==
    /\ kind \in {"generic", "network"}
    /\ storage = << >>
    /\ stableId = << >>
    /\ inits = [p \in Pages |-> <<>>]
    /\ attached = [p \in Pages |-> <<>>]
    /\ listeners = << >>
    /\ sessions = [p \in Pages |-> 0]
    /\ seenIssueKeys = << >>
    /\ issuesAggregators = {}
    /\ mockIssuesManagers = << >>
    /\ uncaught = {}
    /\ last = [op |-> "constructor", page |-> "", arg |-> "", did |-> ""]

\* ---------------------------------------------------------------- actions

\* addPage without `if (this.storage.has(page)) return`.
addPageAgain(page) ==
    /\ InitsOf(Pages) < MaxInits
    /\ storage' = MapSet(storage, page, <<<<>>>>)
    /\ IF kind = "network"
       THEN /\ inits' = [inits EXCEPT ![page] = Append(@, [pc |-> "return", i |-> 1])]
            /\ UNCHANGED <<seenIssueKeys, issuesAggregators, mockIssuesManagers>>
       ELSE /\ inits' = [inits EXCEPT
                   ![page] = Append(@, [pc |-> "createCDPSession", i |-> 1])]
            /\ seenIssueKeys' = IF page \in DOMAIN seenIssueKeys THEN seenIssueKeys
                                ELSE MapSet(seenIssueKeys, page, {})
            /\ mockIssuesManagers' = MapSet(mockIssuesManagers, page, [k \in Keys |-> 0])
            /\ issuesAggregators' = issuesAggregators \cup {page}
    /\ last' = [op |-> "addPage", page |-> page, arg |-> "", did |-> "initializePage"]
    /\ UNCHANGED <<kind, stableId, attached, listeners, sessions, uncaught>>

\* addPage(page), up to the first await of #initializePage: the early return,
\* or storage.set and the synchronous part of subscribeForIssues.
addPage(page) ==
    IF page \in DOMAIN storage
    THEN /\ last' = [op |-> "addPage", page |-> page, arg |-> "", did |-> "return"]
         /\ UNCHANGED <<kind, storage, stableId, inits, attached, listeners, sessions,
                        seenIssueKeys, issuesAggregators, mockIssuesManagers, uncaught>>
    ELSE /\ InitsOf(Pages) < MaxInits
         /\ storage' = MapSet(storage, page, <<<<>>>>)
         /\ IF kind = "network"
            THEN /\ inits' = [inits EXCEPT ![page] = Append(@, [pc |-> "return", i |-> 1])]
                 /\ UNCHANGED <<seenIssueKeys, issuesAggregators, mockIssuesManagers>>
            ELSE /\ inits' = [inits EXCEPT
                        ![page] = Append(@, [pc |-> "createCDPSession", i |-> 1])]
                 /\ seenIssueKeys' = IF page \in DOMAIN seenIssueKeys THEN seenIssueKeys
                                     ELSE MapSet(seenIssueKeys, page, {})
                 /\ mockIssuesManagers' = MapSet(mockIssuesManagers, page, [k \in Keys |-> 0])
                 /\ issuesAggregators' = issuesAggregators \cup {page}
         /\ last' = [op |-> "addPage", page |-> page, arg |-> "", did |-> "initializePage"]
         /\ UNCHANGED <<kind, stableId, attached, listeners, sessions, uncaught>>

\* subscribeForIssues resumes after `await page.createCDPSession()`:
\* session.on('Audits.issueAdded', ...) and session.send('Audits.enable').
createCDPSession(page, n) ==
    /\ n \in 1..Len(inits[page])
    /\ inits[page][n].pc = "createCDPSession"
    /\ sessions' = [sessions EXCEPT ![page] = @ + 1]
    /\ inits' = [inits EXCEPT ![page][n].pc = "Audits.enable"]
    /\ last' = [op |-> "createCDPSession", page |-> page, arg |-> "", did |-> ""]
    /\ UNCHANGED <<kind, storage, stableId, attached, listeners, seenIssueKeys,
                   issuesAggregators, mockIssuesManagers, uncaught>>

\* #initializePage resumes after `await this.subscribeForIssues(page)`: the
\* listeners are built, 'framenavigated' is set, all are attached and kept.
attachListeners(page, n) ==
    /\ n \in 1..Len(inits[page])
    /\ inits[page][n].pc \in {"Audits.enable", "return"}
    /\ attached' = [attached EXCEPT ![page] = Append(@, n)]
    /\ listeners' = MapSet(listeners, page, n)
    /\ inits' = [inits EXCEPT ![page][n].pc = "done"]
    /\ last' = [op |-> "attachListeners", page |-> page, arg |-> "", did |-> ""]
    /\ UNCHANGED <<kind, storage, stableId, sessions, seenIssueKeys,
                   issuesAggregators, mockIssuesManagers, uncaught>>

\* An item event of the page (e.g. 'request') reaches the attached listeners.
itemEvent(page, value) ==
    /\ attached[page] # <<>>
    /\ LET h == emitItem([stableId |-> stableId, inits |-> inits, storage |-> storage],
                         page, attached[page], value)
       IN  /\ stableId' = h.stableId
           /\ inits' = h.inits
           /\ storage' = h.storage
    /\ last' = [op |-> "itemEvent", page |-> page, arg |-> value, did |-> ""]
    /\ UNCHANGED <<kind, attached, listeners, sessions, seenIssueKeys,
                   issuesAggregators, mockIssuesManagers, uncaught>>

\* A 'framenavigated' event of the page, for its main frame or a sub-frame.
framenavigated(page, f) ==
    /\ attached[page] # <<>>
    /\ (kind = "network" /\ page \in DOMAIN storage /\ f = mainFrame(page))
          => Len(storage[page]) + Len(attached[page]) <= MaxWindows
    /\ LET r == emitFramenavigated(kind, storage, page, attached[page], f)
       IN  /\ storage' = r.storage
           /\ uncaught' = IF r.threw THEN uncaught \cup {"TypeError"} ELSE uncaught
           /\ last' = [op |-> "framenavigated", page |-> page, arg |-> f,
                       did |-> IF r.threw THEN "throw" ELSE ""]
    /\ UNCHANGED <<kind, stableId, inits, attached, listeners, sessions, seenIssueKeys,
                   issuesAggregators, mockIssuesManagers>>

\* The 'Audits.issueAdded' handler without `if (seenKeys.has(primaryKey)) return`.
issueAddedUnseen(page, issue) ==
    /\ sessions[page] > 0
    /\ IF issue = undefined
       THEN /\ last' = [op |-> "issueAdded", page |-> page, arg |-> issue, did |-> "return"]
            /\ UNCHANGED <<seenIssueKeys, mockIssuesManagers, uncaught>>
       ELSE IF page \notin DOMAIN seenIssueKeys
       THEN /\ last' = [op |-> "issueAdded", page |-> page, arg |-> issue, did |-> "throw"]
            /\ uncaught' = uncaught \cup {"TypeError"}
            /\ UNCHANGED <<seenIssueKeys, mockIssuesManagers>>
       ELSE /\ last' = [op |-> "issueAdded", page |-> page, arg |-> issue,
                        did |-> IF page \in DOMAIN mockIssuesManagers
                                THEN "dispatch" ELSE "add"]
            /\ seenIssueKeys' = [seenIssueKeys EXCEPT ![page] = @ \cup {issue}]
            /\ mockIssuesManagers' =
                  IF page \in DOMAIN mockIssuesManagers
                  THEN [mockIssuesManagers EXCEPT ![page][issue] = @ + 1]
                  ELSE mockIssuesManagers
            /\ UNCHANGED uncaught
    /\ UNCHANGED <<kind, storage, stableId, inits, attached, listeners, sessions,
                   issuesAggregators>>

\* The 'Audits.issueAdded' handler of one session of the page; issue is the
\* primary key of createIssuesFromProtocolIssue(...)[0], or undefined.
issueAdded(page, issue) ==
    /\ sessions[page] > 0
    /\ IF issue = undefined
       THEN /\ last' = [op |-> "issueAdded", page |-> page, arg |-> issue, did |-> "return"]
            /\ UNCHANGED <<seenIssueKeys, mockIssuesManagers, uncaught>>
       ELSE IF page \notin DOMAIN seenIssueKeys
       THEN /\ last' = [op |-> "issueAdded", page |-> page, arg |-> issue, did |-> "throw"]
            /\ uncaught' = uncaught \cup {"TypeError"}
            /\ UNCHANGED <<seenIssueKeys, mockIssuesManagers>>
       ELSE IF issue \in seenIssueKeys[page]
       THEN /\ last' = [op |-> "issueAdded", page |-> page, arg |-> issue, did |-> "seen"]
            /\ UNCHANGED <<seenIssueKeys, mockIssuesManagers, uncaught>>
       ELSE /\ last' = [op |-> "issueAdded", page |-> page, arg |-> issue,
                        did |-> IF page \in DOMAIN mockIssuesManagers
                                THEN "dispatch" ELSE "add"]
            /\ seenIssueKeys' = [seenIssueKeys EXCEPT ![page] = @ \cup {issue}]
            /\ mockIssuesManagers' =
                  IF page \in DOMAIN mockIssuesManagers
                  THEN [mockIssuesManagers EXCEPT ![page][issue] = @ + 1]
                  ELSE mockIssuesManagers
            /\ UNCHANGED uncaught
    /\ UNCHANGED <<kind, storage, stableId, inits, attached, listeners, sessions,
                   issuesAggregators>>

\* #cleanupPageDestroyed without `this.storage.delete(page)`.
cleanupKeepsStorage(page) ==
    /\ attached' = IF page \in DOMAIN listeners
                   THEN [attached EXCEPT
                           ![page] = SelectSeq(@, LAMBDA n : n # listeners[page])]
                   ELSE attached
    /\ seenIssueKeys' = MapDelete(seenIssueKeys, page)
    /\ issuesAggregators' = issuesAggregators \ {page}
    /\ mockIssuesManagers' = MapDelete(mockIssuesManagers, page)
    /\ last' = [op |-> "cleanupPageDestroyed", page |-> page, arg |-> "",
                did |-> IF page \notin DOMAIN storage THEN "nothing stored"
                        ELSE IF Flatten(storage[page]) = <<>> THEN "empty windows"
                        ELSE IF storage[page][1] = <<>> THEN "older items"
                        ELSE "items"]
    /\ UNCHANGED <<kind, storage, stableId, inits, listeners, sessions, uncaught>>

\* #cleanupPageDestroyed(page), run by the 'targetdestroyed' handler.
cleanupPageDestroyed(page) ==
    /\ attached' = IF page \in DOMAIN listeners
                   THEN [attached EXCEPT
                           ![page] = SelectSeq(@, LAMBDA n : n # listeners[page])]
                   ELSE attached
    /\ storage' = MapDelete(storage, page)
    /\ seenIssueKeys' = MapDelete(seenIssueKeys, page)
    /\ issuesAggregators' = issuesAggregators \ {page}
    /\ mockIssuesManagers' = MapDelete(mockIssuesManagers, page)
    /\ last' = [op |-> "cleanupPageDestroyed", page |-> page, arg |-> "",
                did |-> IF page \notin DOMAIN storage THEN "nothing stored"
                        ELSE IF Flatten(storage[page]) = <<>> THEN "empty windows"
                        ELSE IF storage[page][1] = <<>> THEN "older items"
                        ELSE "items"]
    /\ UNCHANGED <<kind, stableId, inits, listeners, sessions, uncaught>>

\* The state of the collector: every field, the symbol on the items and what
\* the pages and sessions hold.
collectorState == <<kind, storage, stableId, inits, attached, listeners, sessions,
                    seenIssueKeys, issuesAggregators, mockIssuesManagers, uncaught>>

\* getData with `storage.set(page, [[]])` for a page the storage does not have.
getDataAllocating(page, includePreservedData) ==
    /\ storage' = IF page \in DOMAIN storage THEN storage
                  ELSE MapSet(storage, page, <<<<>>>>)
    /\ last' = [op |-> "getData", page |-> page, arg |-> includePreservedData,
                did |-> IF getData(page, includePreservedData) = <<>>
                        THEN "empty" ELSE "items"]
    /\ UNCHANGED <<kind, stableId, inits, attached, listeners, sessions,
                   seenIssueKeys, issuesAggregators, mockIssuesManagers, uncaught>>

\* A call of getData(page, includePreservedData): reads only.
getDataCall(page, includePreservedData) ==
    /\ last' = [op |-> "getData", page |-> page, arg |-> includePreservedData,
                did |-> IF getData(page, includePreservedData) = <<>>
                        THEN "empty" ELSE "items"]
    /\ UNCHANGED collectorState

\* A call of getIdForResource(resource): reads only.
getIdForResourceCall(resource) ==
    /\ last' = [op |-> "getIdForResource", page |-> "", arg |-> resource,
                did |-> IF getIdForResource(resource) = -1 THEN "-1" ELSE "id"]
    /\ UNCHANGED collectorState

\* A call of getById(page, stableId): reads only, and throws to its caller
\* when it has no item to return.
getByIdCall(page, id) ==
    /\ last' = [op |-> "getById", page |-> page, arg |-> id,
                did |-> IF getById(page, id) \in {NoRequestsFound, RequestNotFound}
                        THEN "throw" ELSE "item"]
    /\ UNCHANGED collectorState

\* A call of find(page, filter), the filter accepting the items of `accepts`:
\* reads only.
findCall(page, accepts) ==
    /\ last' = [op |-> "find", page |-> page, arg |-> accepts,
                did |-> IF find(page, accepts) = undefined THEN "undefined" ELSE "item"]
    /\ UNCHANGED collectorState

\* Pages come and go, with their item and navigation events; two of the items
\* are enough to tell a first from a second item of a page.
Next ==
    \/ \E page \in Pages : addPage(page)
    \/ \E page \in Pages : \E n \in 1..MaxInits : createCDPSession(page, n)
    \/ \E page \in Pages : \E n \in 1..MaxInits : attachListeners(page, n)
    \/ \E page \in Pages : \E value \in {"a", "b"} :
          Fits(page, value, MaxStoredPages) /\ itemEvent(page, value)
    \/ \E page \in Pages : \E f \in {"main", "sub"} : framenavigated(page, f)
    \/ \E page \in Pages : cleanupPageDestroyed(page)

Spec == Init /\ [][Next]_vars

\* Pages come and go, with the raw issues of their sessions.
NextIssues ==
    \/ \E page \in Pages : addPage(page)
    \/ \E page \in Pages : \E n \in 1..MaxInits : createCDPSession(page, n)
    \/ \E page \in Pages : \E n \in 1..MaxInits : attachListeners(page, n)
    \/ \E page \in Pages : \E issue \in Keys \cup {undefined} : issueAdded(page, issue)
    \/ \E page \in Pages : cleanupPageDestroyed(page)

SpecIssues == Init /\ [][NextIssues]_vars

\* One page that stays, with its item and navigation events.
NextWindows ==
    \/ addPage("P")
    \/ \E n \in 1..MaxInits : createCDPSession("P", n)
    \/ \E n \in 1..MaxInits : attachListeners("P", n)
    \/ \E value \in Items : Fits("P", value, MaxStored) /\ itemEvent("P", value)
    \/ \E f \in {"main", "sub"} : framenavigated("P", f)

SpecWindows == Init /\ [][NextWindows]_vars

\* One page that comes and goes with its events, and the queries on it and on
\* a page that was never added.
NextQueries ==
    \/ addPage("P")
    \/ \E n \in 1..MaxInits : createCDPSession("P", n)
    \/ \E n \in 1..MaxInits : attachListeners("P", n)
    \/ \E value \in {"a", "b"} : Fits("P", value, MaxStoredPages) /\ itemEvent("P", value)
    \/ \E f \in {"main", "sub"} : framenavigated("P", f)
    \/ cleanupPageDestroyed("P")
    \/ \E page \in Pages : \E includePreservedData \in BOOLEAN :
          getDataCall(page, includePreservedData)
    \/ \E resource \in {"a", "b"} : getIdForResourceCall(resource)
    \/ \E page \in Pages : \E id \in 0..MAX_SAFE_INTEGER : getByIdCall(page, id)
    \/ \E page \in Pages : \E accepts \in {{"a"}, {"b"}, {"a", "b"}} : findCall(page, accepts)

SpecQueries == Init /\ [][NextQueries]_vars

\* ----------------------------------------------------------------- claims

\* How often value occurs in array
Count(array, value) == Cardinality({n \in 1..Len(array) : array[n] = value})

\* The last handler that ran was an item event of page carrying value.
WasItemEvent(page, value) ==
    last.op = "itemEvent" /\ last.page = page /\ last.arg = value

\* The last handler that ran was a main-frame navigation of page.
WasRotation(page) ==
    last.op = "framenavigated" /\ last.page = page /\ last.arg = mainFrame(page)

\* C1: on a registered page, an item event carrying an item that window[0]
\* already holds leaves the item's StableId as it was, whatever id the counter
\* gave it, and leaves the item exactly once in window[0].
C1_ReingestKeepsStableId ==
    [][\A page \in Pages, value \in Items :
          (/\ WasItemEvent(page, value)'
           /\ page \in DOMAIN storage
           /\ Includes(storage[page][1], value))
          => /\ stableId'[value] = stableId[value]
             /\ Count(storage'[page][1], value) = 1]_vars

\* C2: after any rotation, under either rotation policy, the page's list of
\* windows is at most maxRetained long.
C2_RotationKeepsMaxRetained ==
    \A page \in DOMAIN storage :
        WasRotation(page) => Len(storage[page]) <= maxNavigationSaved

\* The windows getData(page, true) takes items from.
EpochsReturned(page) ==
    {index \in 0..maxNavigationSaved :
        /\ index + 1 <= Len(storage[page])
        /\ storage[page][index + 1] # <<>>}

\* A rotation prepends one window and nothing else adds one: a page whose list
\* is n + 1 long has been rotated n times at least.
RotatedAtLeast(page, n) == Len(storage[page]) >= n + 1

\* C3: after maxRetained + 1 rotations of a page, getData(page, true) returns
\* items of maxRetained epochs at most.
C3_HistoryOfMaxRetainedEpochs ==
    \A page \in DOMAIN storage :
        RotatedAtLeast(page, maxNavigationSaved + 1)
        => Cardinality(EpochsReturned(page)) <= maxNavigationSaved

\* request is a navigation-initiating request of the page's main frame.
MainFrameNavigation(page, request) ==
    frame(request) = mainFrame(page) /\ isNavigationRequest(request)

\* k is the largest index of w whose item is a main-frame navigation request.
LastNavigation(page, w, k) ==
    /\ k \in 1..Len(w)
    /\ MainFrameNavigation(page, w[k])
    /\ \A j \in (k + 1)..Len(w) : ~MainFrameNavigation(page, w[j])

\* C4: a rotation of the network collector on a registered page whose current
\* window is w: with k the largest index of a main-frame navigation request,
\* window[0] becomes w[k..end] and window[1] becomes w[0..k-1]; without such
\* an index window[0] becomes empty and window[1] becomes w. Either way no
\* item of w is lost and the order is kept.
C4_NavigationAwareRotation ==
    [][\A page \in Pages :
          (/\ WasRotation(page)'
           /\ kind = "network"
           /\ page \in DOMAIN storage
           /\ Len(attached[page]) = 1)
          => LET w == storage[page][1]
                 after == storage'[page]
             IN  /\ Len(after) = Len(storage[page]) + 1
                 /\ after[2] \o after[1] = w
                 /\ \A k \in 1..Len(w) :
                       LastNavigation(page, w, k)
                       => /\ after[1] = SubSeq(w, k, Len(w))
                          /\ after[2] = SubSeq(w, 1, k - 1)
                 /\ (~\E k \in 1..Len(w) : LastNavigation(page, w, k))
                       => /\ after[1] = <<>>
                          /\ after[2] = w]_vars

\* A network rotation has just split a window that held two main-frame
\* navigation requests: the later one opens window[0], followed by another
\* item, and the earlier one stays behind in window[1].
C4_Witness ==
    /\ kind = "network"
    /\ WasRotation("P")
    /\ "P" \in DOMAIN storage
    /\ Len(storage["P"]) >= 2
    /\ Len(storage["P"][1]) >= 2
    /\ MainFrameNavigation("P", storage["P"][1][1])
    /\ \E n \in 1..Len(storage["P"][2]) : MainFrameNavigation("P", storage["P"][2][n])

\* C5: a rotation of the generic collector on a registered page leaves
\* window[0] empty and window[1] equal to what window[0] was; getData(page,
\* false) is empty and getData(page, true) still has every one of those items.
C5_DefaultRotation ==
    [][\A page \in Pages :
          (/\ WasRotation(page)'
           /\ kind = "generic"
           /\ page \in DOMAIN storage
           /\ Len(attached[page]) = 1)
          => /\ storage'[page][1] = <<>>
             /\ storage'[page][2] = storage[page][1]
             /\ getDataOf(storage', page, FALSE) = <<>>
             /\ \A n \in 1..Len(storage[page][1]) :
                   Includes(getDataOf(storage', page, TRUE), storage[page][1][n])]_vars

\* A generic rotation has just closed a window of two items or more, on a list
\* that is maxRetained long.
C5_Witness ==
    /\ kind = "generic"
    /\ WasRotation("P")
    /\ "P" \in DOMAIN storage
    /\ Len(storage["P"]) = maxNavigationSaved
    /\ storage["P"][1] = <<>>
    /\ Len(storage["P"][2]) >= 2

\* The windows of one page, highest index (oldest epoch) first.
RECURSIVE OldestFirst(_)
OldestFirst(navigations) ==
    IF navigations = <<>> THEN <<>>
    ELSE OldestFirst(Tail(navigations)) \o Head(navigations)

\* C6: getData(page, false) is window[0]; getData(page, true) is every window
\* the page retains, oldest epoch first, each in insertion order; both are
\* empty for a page that is not registered.
C6_GetDataReturnsRetainedWindows ==
    \A page \in Pages :
        IF page \in DOMAIN storage
        THEN /\ getData(page, FALSE) = storage[page][1]
             /\ getData(page, TRUE) = OldestFirst(storage[page])
        ELSE /\ getData(page, FALSE) = <<>>
             /\ getData(page, TRUE) = <<>>

\* The items in the windows of a page, none for a page that has no storage.
StoredItems(page) ==
    IF page \notin DOMAIN storage THEN {}
    ELSE LET items == Flatten(storage[page])
         IN  {items[n] : n \in 1..Len(items)}

\* The errors that are the spec's NotFound.
NotFound == {NoRequestsFound, RequestNotFound}

\* C7: on a registered page find returns an item the filter accepts whenever
\* any retained window holds one, and the first such item of window[0] when
\* window[0] holds one; getById returns an item that carries the id whenever a
\* retained window holds one, and fails with NotFound exactly when the page
\* is not registered or no retained item carries the id.
C7_LookupSearchesEveryWindow ==
    \A page \in Pages :
        LET stored == StoredItems(page)
            current == IF page \in DOMAIN storage THEN storage[page][1] ELSE <<>>
        IN  /\ \A accepts \in SUBSET Items :
                  LET item == find(page, accepts)
                  IN  /\ (stored \cap accepts # {}) => item \in stored \cap accepts
                      /\ (stored \cap accepts = {}) => item = undefined
                      /\ (\E n \in 1..Len(current) : current[n] \in accepts)
                            => \E n \in 1..Len(current) :
                                  /\ current[n] = item
                                  /\ \A m \in 1..(n - 1) : current[m] \notin accepts
            /\ \A id \in 0..MAX_SAFE_INTEGER :
                  LET carrying == {x \in stored : getIdForResource(x) = id}
                  IN  IF page \notin DOMAIN storage \/ carrying = {}
                      THEN getById(page, id) \in NotFound
                      ELSE getById(page, id) \in carrying

\* An item that only an older window holds is found by its id.
C7_Witness ==
    /\ "P" \in DOMAIN storage
    /\ Len(storage["P"]) = maxNavigationSaved
    /\ \E item \in Items :
          /\ Includes(storage["P"][maxNavigationSaved], item)
          /\ ~Includes(storage["P"][1], item)
          /\ ~Includes(storage["P"][2], item)
          /\ storage["P"][1] # <<>>
          /\ getById("P", getIdForResource(item)) = item
          /\ find("P", {item}) = item

\* C8: once #cleanupPageDestroyed has run for a page, getData of the page is
\* empty with and without history, find finds nothing and getById fails with
\* NotFound for every id.
C8_DestroyedPageHasNoData ==
    \A page \in Pages :
        (last.op = "cleanupPageDestroyed" /\ last.page = page)
        => /\ getData(page, FALSE) = <<>>
           /\ getData(page, TRUE) = <<>>
           /\ \A accepts \in SUBSET Items : find(page, accepts) = undefined
           /\ \A id \in 0..MAX_SAFE_INTEGER : getById(page, id) \in NotFound

\* A page has just been destroyed that held an item in a closed window: an
\* item and a rotation came before.
C8_Witness ==
    /\ last.op = "cleanupPageDestroyed"
    /\ last.did = "older items"
    /\ last.page \notin DOMAIN storage

\* C9: on a registered page of an issue-bearing collector, a raw issue whose
\* primary key is in SeenIssueKeys[page] is dropped, nothing forwarded; one
\* whose key is new is added to the set and dispatched to the page's manager
\* once; no key is ever dispatched to the manager twice.
C9_IssueForwardedOnce ==
    [][\A page \in Pages, key \in Keys :
          (/\ last'.op = "issueAdded" /\ last'.page = page /\ last'.arg = key
           /\ page \in DOMAIN storage)
          => /\ page \in DOMAIN seenIssueKeys
             /\ page \in DOMAIN mockIssuesManagers
             /\ IF key \in seenIssueKeys[page]
                THEN UNCHANGED <<seenIssueKeys, mockIssuesManagers>>
                ELSE /\ seenIssueKeys' =
                           [seenIssueKeys EXCEPT ![page] = @ \cup {key}]
                     /\ mockIssuesManagers' =
                           [mockIssuesManagers EXCEPT ![page][key] = @ + 1]
             /\ \A k \in Keys : mockIssuesManagers'[page][k] <= 1]_vars

\* A raw issue has just been dropped as seen, on a registered page whose
\* manager got every key once.
C9_Witness ==
    /\ last.op = "issueAdded"
    /\ last.did = "seen"
    /\ last.page \in DOMAIN storage
    /\ seenIssueKeys[last.page] = Keys
    /\ \A k \in Keys : mockIssuesManagers[last.page][k] = 1

\* C10: addPage on a registered page, also while the page's #initializePage
\* is still waiting, changes nothing: windows, id counters, SeenIssueKeys,
\* aggregator and manager, attached listeners and sessions stay as they are.
C10_AddPageIdempotent ==
    [][\A page \in Pages :
          (/\ last'.op = "addPage" /\ last'.page = page
           /\ page \in DOMAIN storage)
          => UNCHANGED <<storage, stableId, inits, attached, listeners, sessions,
                         seenIssueKeys, issuesAggregators, mockIssuesManagers,
                         uncaught>>]_vars

\* addPage has just returned early for a page whose #initializePage is still
\* waiting and whose storage is there.
C10_Witness ==
    /\ last.op = "addPage"
    /\ last.did = "return"
    /\ last.page \in DOMAIN storage
    /\ \E n \in 1..Len(inits[last.page]) : inits[last.page][n].pc # "done"

\* C11: no two distinct items of one collector carry the same StableId,
\* whether they were tagged on the same page or on different pages, and the
\* StableIds handed out start from 1.
C11_StableIdsUnique ==
    \A x \in DOMAIN stableId :
       /\ stableId[x] >= 1
       /\ \A y \in DOMAIN stableId : x # y => stableId[x] # stableId[y]

\* The value the counter is to emit after the value v.
EmittedAfter(v) == IF v = MAX_SAFE_INTEGER THEN 0 ELSE v + 1

\* C12: the id counter emits 1, 2, ..., MAX_SAFE_INTEGER in order, then 0, then
\* 1, 2, ... again: the id a previously untagged item gets is the successor of
\* the id the counter emitted last (the counter holds that id plus one), and
\* the successor of MAX_SAFE_INTEGER - 1 is MAX_SAFE_INTEGER itself.
C12_CounterEmitsMaxBeforeWrap ==
    [][\A value \in Items :
          (/\ WasItemEvent("P", value)'
           /\ attached["P"] = <<1>>
           /\ NoStableId(stableId, value))
          => stableId'[value] = EmittedAfter(inits["P"][1].i - 1)]_vars

\* The queries of the collector
Queries == {"getData", "getIdForResource", "getById", "find"}

\* C13: a call of getData, getById, find or getIdForResource, for a registered
\* page or not and whatever its arguments and its outcome, leaves every field
\* of the collector as it was: the storage (no page is registered, no window
\* changed), the id counters, the ids on the items and the seen issue keys.
C13_QueriesChangeNothing ==
    [][last'.op \in Queries => UNCHANGED collectorState]_vars

\* A query for a page the storage does not have, while another page has items.
C13_Witness ==
    /\ last.op \in {"getData", "getById", "find"}
    /\ last.page = "Q"
    /\ "Q" \notin DOMAIN storage
    /\ "P" \in DOMAIN storage
    /\ storage["P"][1] # <<>>

\* The page was registered and has been torn down since.
TornDown(page) == page \notin DOMAIN storage /\ inits[page] # <<>>

\* C14: an event that arrives for a page after its teardown (an item event, a
\* navigation, a raw issue of the page's session) raises no error and leaves
\* the page without windows, seen issue keys and aggregator.
C14_LateEventIsNoOp ==
    [][\A page \in Pages :
          (/\ last'.op \in {"itemEvent", "framenavigated", "issueAdded"}
           /\ last'.page = page
           /\ TornDown(page))
          => /\ uncaught' = uncaught
             /\ last'.did # "throw"
             /\ page \notin DOMAIN storage'
             /\ page \notin DOMAIN seenIssueKeys'
             /\ page \notin issuesAggregators'
             /\ page \notin DOMAIN mockIssuesManagers']_vars

\* Every #initializePage run of the page has returned.
Initialized(page) == \A n \in 1..Len(inits[page]) : inits[page][n].pc = "done"

\* C15: once the registration of a page and its destroy notification have both
\* completed, in whatever order their steps ran, the page has no state left:
\* no windows, no seen issue keys, no aggregator, no entry in the listener
\* map, and none of the collector's handlers on the page's events.
C15_NoStateAfterDestroy ==
    \A page \in Pages :
        (TornDown(page) /\ Initialized(page))
        => /\ page \notin DOMAIN seenIssueKeys
           /\ page \notin issuesAggregators
           /\ page \notin DOMAIN mockIssuesManagers
           /\ page \notin DOMAIN listeners
           /\ attached[page] = <<>>

\* C16: on a registered page with its handlers attached once, a
\* 'framenavigated' event for the main frame runs splitAfterNavigation(page),
\* and one for any other frame leaves the windows as they were; the listener
\* attached for 'framenavigated' is the splitting one, not the caller's.
C16_RotatesOnMainFrameOnly ==
    [][(/\ last'.op = "framenavigated"
        /\ last'.page = "P"
        /\ "P" \in DOMAIN storage
        /\ Len(attached["P"]) = 1)
       => /\ last'.arg = mainFrame("P")
                => storage' = splitAfterNavigation(kind, storage, "P").storage
          /\ last'.arg # mainFrame("P") => storage' = storage]_vars

\* A sub-frame navigation has left alone a page that a main-frame navigation
\* had rotated before.
C16_Witness ==
    /\ last.op = "framenavigated"
    /\ last.page = "P"
    /\ last.arg = "sub"
    /\ "P" \in DOMAIN storage
    /\ Len(storage["P"]) >= 2
    /\ storage["P"][1] # <<>>
    /\ storage["P"][2] # <<>>

\* C17: a page that addPage registers, for the first time or again after its
\* destruction, starts with exactly one empty window, and the first item
\* ingested on it that carried no StableId gets the StableId 1, whatever ids
\* were handed out on other pages or while the page was registered before.
C17_FreshPageStartsAtOne ==
    [][\A page \in Pages :
          /\ (/\ last'.op = "addPage" /\ last'.page = page
              /\ last'.did = "initializePage")
             => storage'[page] = <<<<>>>>
          /\ \A value \in Items :
                (/\ WasItemEvent(page, value)'
                 /\ page \in DOMAIN storage
                 /\ storage[page] = <<<<>>>>
                 /\ value \notin DOMAIN stableId)
                => stableId'[value] = 1]_vars

\* C18: whatever getById(page, id) or find(page, filter) returns for a
\* registered page is one of the items getData(page, true) returns.
C18_LookupWithinHistory ==
    \A page \in DOMAIN storage :
        LET data == getData(page, TRUE)
        IN  /\ \A item \in Items :
                  find(page, {item}) # undefined => Includes(data, find(page, {item}))
            /\ \A id \in 0..MAX_SAFE_INTEGER :
                  getById(page, id) \notin NotFound => Includes(data, getById(page, id))

\* C19: on a registered page every item occurs at most once in all the
\* retained windows together, also when it is delivered again after a
\* rotation, so getData(page, true) never holds an item twice.
C19_ItemOnceAcrossWindows ==
    \A page \in DOMAIN storage :
        LET all == Flatten(storage[page])
            data == getData(page, TRUE)
        IN  \A item \in Items : Count(all, item) <= 1 /\ Count(data, item) <= 1

\* C19, as the code has it: on a registered page every item occurs at most
\* once within each retained window; an item that is delivered again after a
\* rotation is appended to the current window as well, so getData(page, true)
\* holds an item at most once for each window it reads.
C19_ItemOncePerWindow ==
    \A page \in DOMAIN storage :
        /\ \A n \in 1..Len(storage[page]) :
              \A item \in Items : Count(storage[page][n], item) <= 1
        /\ LET data == getData(page, TRUE)
           IN  \A item \in Items :
                  Count(data, item) <= Min(Len(storage[page]), maxNavigationSaved + 1)

\* An item was delivered again after a rotation: the current window and an
\* older one both hold it.
C19_Witness ==
    /\ "P" \in DOMAIN storage
    /\ WasItemEvent("P", "b")
    /\ Len(storage["P"]) >= 2
    /\ Includes(storage["P"][1], "b")
    /\ Includes(storage["P"][2], "b")

\* C20: however addPage, the destroy notification and a further addPage of a
\* page interleave, the page has the handlers of one registration at most, and
\* one main-frame navigation of a registered page adds one window at most.
C20_OneHandlerSetPerPage ==
    [][\A page \in Pages :
          /\ Len(attached'[page]) <= 1
          /\ (WasRotation(page)' /\ page \in DOMAIN storage)
             => Len(storage'[page]) <= Len(storage[page]) + 1]_vars

====
